---- MODULE Spec2Model ----
(***************************************************************************)
(* The process-readiness supervisor of the ComfyUI Modal template          *)
(* (src/builder/modal-builder/src/template/app.py):                        *)
(*   spawn_comfyui_in_background launches `python main.py --port 8188`,    *)
(*   then loops: connect to 127.0.0.1:8188; on success close the socket    *)
(*   and return the process; on timeout / refusal poll the child and raise *)
(*   when it has exited.  comfyui_app calls it and then builds the proxy.  *)
(* The child process runs concurrently: it may bind the port and may exit  *)
(* at any moment, between any two statements of the supervisor.            *)
(***************************************************************************)
EXTENDS Integers, FiniteSets, Sequences, TLC

\* ------------------------------------------------------------------ bounds
\* Probes the model lets the loop make (the loop itself has no cap).
MaxAttempts == 1003
\* Extra probes made against the listener after readiness (SpecProbe only).
MaxReprobes == 3

\* ------------------------------------------------------- program constants
COMFY_API_AVAILABLE_MAX_RETRIES == 500
COMFY_POLLING_MAX_RETRIES == 1000
ListenPort == 8188
ProbePort == 8188

\* Exit codes the child may end with (0 = clean exit, negative = signal).
ExitCodes == {0, 1, -9}

\* Python's None for process.poll(): an option is a set of at most one value.
None == {}
Some(c) == {c}

VARIABLES
    pc,              \* the statement the supervisor / comfyui_app is at
    child,           \* "none" | "starting" | "listening" | "exited"
    exitCode,        \* None, or Some(c) once the child has exited with c
    boundAt,         \* failed probes seen when the child bound the port; -1 = never
    attempts,        \* create_connection calls started
    failed,          \* probes that ended in an exception
    polls,           \* process.poll() calls made
    sock,            \* probe sockets currently open
    lastProbe,       \* outcome of the latest probe
    retcode,         \* the local `retcode` (line 116)
    error,           \* <<>> or <<kind, code>> : the exception that left the function
    returns,         \* times spawn_comfyui_in_background returned the handle
    proxy,           \* TRUE once make_simple_proxy_app built the proxy
    probesAfterExit, \* probes started after the child exited
    returnedDead,    \* TRUE when the handle was returned with the child already exited
    reprobes         \* probes repeated against the listener after readiness

vars == <<pc, child, exitCode, boundAt, attempts, failed, polls, sock, lastProbe,
          retcode, error, returns, proxy, probesAfterExit, returnedDead, reprobes>>

ProbeFailures == {"refused", "timeout"}

\* except (socket.timeout, ConnectionRefusedError)   -- line 115
CaughtOnlyRefused == {"refused"}
Caught == {"timeout", "refused"}

\* socket.create_connection(("127.0.0.1", 8188), timeout=1)   -- line 112
\* A listener on the probed port accepts; otherwise the connect is refused or
\* times out.
ProbeOutcomesShortTimeout(c) ==
    IF c = "listening" /\ ProbePort = ListenPort
    THEN {"accepted", "timeout"} ELSE ProbeFailures
ProbeOutcomes(c) ==
    IF c = "listening" /\ ProbePort = ListenPort
    THEN {"accepted"} ELSE ProbeFailures

\* retcode = process.poll()   -- line 116
PollResult(c, code) == IF c = "exited" THEN code ELSE None

\* if retcode is not None   -- line 117
ShouldRaiseTruthy(r) == r # None /\ r # Some(0)
ShouldRaiseInverted(r) == r = None
ShouldRaise(r) == r # None

\* The supervisor's state of the design's state machine, read off the position.
State ==
    CASE pc = "popen" -> "IDLE"
      [] pc \in {"connect", "connecting", "close", "ready", "poll"} -> "STARTING"
      [] pc \in {"app_configure", "app_proxy", "serving"} -> "READY"
      [] pc \in {"raised", "aborted"} -> "FAILED"

Init ==
    /\ pc = "popen"
    /\ child = "none"
    /\ exitCode = None
    /\ boundAt = -1
    /\ attempts = 0
    /\ failed = 0
    /\ polls = 0
    /\ sock = 0
    /\ lastProbe = "none"
    /\ retcode = None
    /\ error = <<>>
    /\ returns = 0
    /\ proxy = FALSE
    /\ probesAfterExit = 0
    /\ returnedDead = FALSE
    /\ reprobes = 0

\* ------------------------------------------------------------ the supervisor
\* process = subprocess.Popen([... "--port", "8188"], cwd="/comfyui")  -- 106-109
Popen ==
    /\ pc = "popen"
    /\ pc' = "connect"
    /\ child' = "starting"
    /\ UNCHANGED <<exitCode, boundAt, attempts, failed, polls, sock, lastProbe,
                   retcode, error, returns, proxy, probesAfterExit, returnedDead, reprobes>>

\* while True: try: socket.create_connection(...) begins: a probe socket is opened
ConnectStart ==
    /\ pc = "connect"
    /\ attempts < MaxAttempts
    /\ pc' = "connecting"
    /\ attempts' = attempts + 1
    /\ sock' = sock + 1
    /\ probesAfterExit' = IF child = "exited" THEN probesAfterExit + 1
                          ELSE probesAfterExit
    /\ UNCHANGED <<child, exitCode, boundAt, failed, polls, lastProbe, retcode,
                   error, returns, proxy, returnedDead, reprobes>>

\* create_connection returns a connected socket
ConnectAcceptedThenPoll ==
    /\ pc = "connecting"
    /\ "accepted" \in ProbeOutcomes(child)
    /\ lastProbe' = "accepted"
    /\ pc' = "poll"
    /\ sock' = sock - 1
    /\ UNCHANGED <<child, exitCode, boundAt, attempts, failed, polls, retcode,
                   error, returns, proxy, probesAfterExit, returnedDead, reprobes>>
ConnectAccepted ==
    /\ pc = "connecting"
    /\ "accepted" \in ProbeOutcomes(child)
    /\ lastProbe' = "accepted"
    /\ pc' = "close"
    /\ UNCHANGED <<child, exitCode, boundAt, attempts, failed, polls, sock, retcode,
                   error, returns, proxy, probesAfterExit, returnedDead, reprobes>>

\* create_connection raises: it closes its socket; the except clause (line 115)
\* catches the exception or lets it leave the function
ConnectFailed ==
    /\ pc = "connecting"
    /\ \E k \in ProbeOutcomes(child) \cap ProbeFailures :
        /\ lastProbe' = k
        /\ IF k \in Caught
           THEN pc' = "poll" /\ error' = error
           ELSE pc' = "raised" /\ error' = <<k, None>>
    /\ sock' = sock - 1
    /\ failed' = failed + 1
    /\ UNCHANGED <<child, exitCode, boundAt, attempts, polls, retcode, returns,
                   proxy, probesAfterExit, returnedDead, reprobes>>

\* .close()   -- line 112
CloseProbeLeak ==
    /\ pc = "close"
    /\ pc' = "ready"
    /\ UNCHANGED <<child, exitCode, boundAt, attempts, failed, polls, sock, lastProbe,
                   retcode, error, returns, proxy, probesAfterExit, returnedDead, reprobes>>
CloseProbe ==
    /\ pc = "close"
    /\ pc' = "ready"
    /\ sock' = sock - 1
    /\ UNCHANGED <<child, exitCode, boundAt, attempts, failed, polls, lastProbe,
                   retcode, error, returns, proxy, probesAfterExit, returnedDead, reprobes>>

\* print("ComfyUI webserver ready!"); break; return process   -- 113-114, 119
ReturnHandle ==
    /\ pc = "ready"
    /\ pc' = "app_configure"
    /\ returns' = returns + 1
    /\ returnedDead' = (child = "exited")
    /\ UNCHANGED <<child, exitCode, boundAt, attempts, failed, polls, sock, lastProbe,
                   retcode, error, proxy, probesAfterExit, reprobes>>

\* retcode = process.poll(); if retcode is not None: raise RuntimeError(...)
\* otherwise the loop goes straight back to the connect   -- 116-118, 110
PollCapped ==
    /\ pc = "poll"
    /\ polls' = polls + 1
    /\ retcode' = PollResult(child, exitCode)
    /\ IF ShouldRaise(retcode')
       THEN pc' = "raised" /\ error' = <<"ProcessExitedPrematurely", retcode'>>
       ELSE IF attempts >= COMFY_API_AVAILABLE_MAX_RETRIES
            THEN pc' = "raised" /\ error' = <<"Timeout", None>>
            ELSE pc' = "connect" /\ error' = error
    /\ UNCHANGED <<child, exitCode, boundAt, attempts, failed, sock, lastProbe,
                   returns, proxy, probesAfterExit, returnedDead, reprobes>>
Poll ==
    /\ pc = "poll"
    /\ polls' = polls + 1
    /\ retcode' = PollResult(child, exitCode)
    /\ IF ShouldRaise(retcode')
       THEN pc' = "raised" /\ error' = <<"ProcessExitedPrematurely", retcode'>>
       ELSE pc' = "connect" /\ error' = error
    /\ UNCHANGED <<child, exitCode, boundAt, attempts, failed, sock, lastProbe,
                   returns, proxy, probesAfterExit, returnedDead, reprobes>>

\* ------------------------------------------------------------- comfyui_app
\* print(App URL); proxy_config = type("Config", ...)()   -- 136-145
AppConfigure ==
    /\ pc = "app_configure"
    /\ pc' = "app_proxy"
    /\ UNCHANGED <<child, exitCode, boundAt, attempts, failed, polls, sock, lastProbe,
                   retcode, error, returns, proxy, probesAfterExit, returnedDead, reprobes>>

\* return make_simple_proxy_app(ProxyContext(proxy_config))   -- 147
AppReturnProxy ==
    /\ pc = "app_proxy"
    /\ pc' = "serving"
    /\ proxy' = TRUE
    /\ UNCHANGED <<child, exitCode, boundAt, attempts, failed, polls, sock, lastProbe,
                   retcode, error, returns, probesAfterExit, returnedDead, reprobes>>

\* the exception leaves spawn_comfyui_in_background and, uncaught at line 135,
\* comfyui_app
AppAbortSwallowed ==
    /\ pc = "raised"
    /\ pc' = "app_configure"
    /\ UNCHANGED <<child, exitCode, boundAt, attempts, failed, polls, sock, lastProbe,
                   retcode, error, returns, proxy, probesAfterExit, returnedDead, reprobes>>
AppAbort ==
    /\ pc = "raised"
    /\ pc' = "aborted"
    /\ UNCHANGED <<child, exitCode, boundAt, attempts, failed, polls, sock, lastProbe,
                   retcode, error, returns, proxy, probesAfterExit, returnedDead, reprobes>>

\* --------------------------------------------------------- the child process
\* main.py binds 0.0.0.0:8188 and starts accepting
ChildBind ==
    /\ child = "starting"
    /\ child' = "listening"
    /\ boundAt' = failed
    /\ UNCHANGED <<pc, exitCode, attempts, failed, polls, sock, lastProbe, retcode,
                   error, returns, proxy, probesAfterExit, returnedDead, reprobes>>

\* main.py ends (crash, clean exit or signal), before or after binding
ChildExit ==
    /\ child \in {"starting", "listening"}
    /\ \E c \in ExitCodes : exitCode' = Some(c)
    /\ child' = "exited"
    /\ UNCHANGED <<pc, boundAt, attempts, failed, polls, sock, lastProbe, retcode,
                   error, returns, proxy, probesAfterExit, returnedDead, reprobes>>

\* The probe step (line 112: connect, then close at once) made again after
\* readiness.
Reprobe ==
    /\ pc = "serving"
    /\ reprobes < MaxReprobes
    /\ reprobes' = reprobes + 1
    /\ \E k \in ProbeOutcomes(child) : lastProbe' = k
    /\ UNCHANGED <<pc, child, exitCode, boundAt, attempts, failed, polls, sock,
                   retcode, error, returns, proxy, probesAfterExit,
                   returnedDead>>

Next ==
    \/ Popen
    \/ ConnectStart
    \/ ConnectAccepted
    \/ ConnectFailed
    \/ CloseProbe
    \/ ReturnHandle
    \/ Poll
    \/ AppConfigure
    \/ AppReturnProxy
    \/ AppAbort
    \/ ChildBind
    \/ ChildExit

Spec == Init /\ [][Next]_vars

NextProbe == Next \/ Reprobe

SpecProbe == Init /\ [][NextProbe]_vars

\* ------------------------------------------------------------- properties
ProcessExited(c) == <<"ProcessExitedPrematurely", c>>

\* C1 (as stated): the handle is returned exactly once, after at least one
\* failed probe, at the first probe made once the port is bound.
C1_ReturnsAfterAFailedProbe ==
    State = "READY" =>
        returns = 1 /\ failed >= 1 /\ attempts = boundAt + 1

\* C1 (amended): with N-1 failed probes before the port is bound (N >= 1, none
\* when N = 1), the handle is returned exactly once, at probe N: N-1 probes
\* failed, probe N was accepted and no probe N+1 is made.
C1_ReturnsAtNthProbe ==
    /\ returns <= 1
    /\ State = "READY" =>
        /\ returns = 1
        /\ boundAt >= 0
        /\ failed = boundAt
        /\ attempts = boundAt + 1
        /\ lastProbe = "accepted"

\* a port bound at the 3rd attempt: returned after exactly 3 probes
C1_Witness ==
    State = "READY" /\ boundAt = 2 /\ attempts = 3 /\ failed = 2 /\ returns = 1

\* C2: a child that exits with code c and never bound the port makes the
\* supervisor fail with ProcessExitedPrematurely carrying exactly c; the
\* supervisor never returns, and starts at most one probe after the exit.
C2_ExitCodeCarried ==
    (child = "exited" /\ boundAt = -1) =>
        /\ probesAfterExit <= 1
        /\ returns = 0
        /\ State \in {"STARTING", "FAILED"}
        /\ State = "FAILED" => error = ProcessExited(exitCode)
        /\ (pc = "connect" => probesAfterExit = 0)

C2_Witness ==
    /\ State = "FAILED"
    /\ boundAt = -1
    /\ error = ProcessExited(Some(0))
    /\ probesAfterExit = 1

\* C3: while the child neither binds nor exits the supervisor neither returns
\* nor raises, whatever the number of failed probes: it is polling or probing.
C3_NoOverallTimeout ==
    child = "starting" =>
        /\ pc \in {"connect", "connecting", "poll"}
        /\ error = <<>>
        /\ returns = 0
        /\ failed = attempts - (IF pc = "connecting" THEN 1 ELSE 0)

\* a probe beyond both MAX_RETRIES constants
C3_Witness ==
    /\ child = "starting"
    /\ pc = "connecting"
    /\ attempts > COMFY_API_AVAILABLE_MAX_RETRIES
    /\ attempts > COMFY_POLLING_MAX_RETRIES

\* C4 (as stated): once the proxy is built, the downstream listener is live.
C4_ProxyReachesLiveListener ==
    /\ proxy => child = "listening"
    /\ State = "FAILED" => ~proxy

\* C4 (amended): the proxy is built only after the supervisor returned the
\* handle following an accepted connect (the listener was live at that probe,
\* and may have gone since), and never when the supervisor failed.
C4_ProxyOnlyAfterAcceptedProbe ==
    /\ (proxy \/ pc \in {"app_configure", "app_proxy"}) =>
        /\ returns = 1
        /\ lastProbe = "accepted"
        /\ boundAt >= 0
        /\ error = <<>>
    /\ State = "FAILED" => (~proxy /\ returns = 0)

C4_Witness == proxy /\ child = "listening" /\ returns = 1

C6_StateMachine ==
    [][ /\ (State = "IDLE" => State' \in {"IDLE", "STARTING"})
        /\ ((State = "IDLE" /\ State' = "STARTING") => child' = "starting")
        /\ ((State = "STARTING" /\ State' = "READY") =>
                (lastProbe = "accepted" /\ failed = attempts - 1))
        /\ ((State = "STARTING" /\ State' = "FAILED") =>
                (child = "exited" /\ failed = attempts))
        /\ (State = "STARTING" => State' # "IDLE")
        /\ (State \in {"READY", "FAILED"} =>
                /\ State' = State
                /\ attempts' = attempts
                /\ polls' = polls
                /\ returns' = returns
                /\ error' = error) ]_vars

C6_Witness == State = "READY" /\ proxy /\ child = "exited" /\ failed >= 1

\* C7: any two consecutive probes are separated by a pause: the loop comes
\* back to the connect only from a pause step.
C7_PauseBetweenProbes ==
    [][ (pc' = "connect" /\ pc # "connect") => pc \in {"popen", "pause"} ]_vars

\* C8: at most one probe socket is open, and only during an attempt: none
\* between attempts, after the return or after the failure.
C8_ProbeSocketScoped ==
    /\ sock \in {0, 1}
    /\ sock = 1 <=> pc \in {"connecting", "close"}

\* an accepted probe closed after earlier failed ones
C8_Witness == pc = "ready" /\ sock = 0 /\ failed >= 1 /\ lastProbe = "accepted"

\* A step that ends a probe: create_connection returns or raises.
ProbeEnds == (pc = "connecting" /\ pc' # "connecting") \/ reprobes' # reprobes

C10_PollOnlyAfterFailedProbe ==
    /\ polls = failed - (IF pc = "poll" THEN 1 ELSE 0)
    /\ State = "READY" => (retcode = None /\ polls = attempts - 1)
    /\ State = "FAILED" => (lastProbe \in ProbeFailures /\ failed = attempts)

\* the handle was returned although the child had already exited
C10_Witness == State = "READY" /\ returnedDead /\ lastProbe = "accepted"

====
